---- MODULE Spec2Model ----
(***************************************************************************)
(* A model of the twiggy chat bot's coordination code:                     *)
(*   - the /duel command (src/src/commands/duel.rs): the IN_PROGRESS flag, *)
(*     the acceptance wait, the cooldown check and the DuelStats update;   *)
(*   - the /dino commands (src/src/commands/dino/commands.rs): hatch,      *)
(*     rename and gift over the Dino, DinoUser and DinoTransactions        *)
(*     tables.                                                             *)
(* Every command is one task; an action of the model is the code between   *)
(* two suspension points (.await) of a task.                               *)
(***************************************************************************)
EXTENDS Integers, Sequences, FiniteSets, TLC

(***************************************************************************)
(* Bounds of the model.                                                    *)
(***************************************************************************)
\* /duel commands started in one behaviour
MaxDuels == 2
\* pick_scores draws from 0..=100; the model draws from 0..MaxScore
MaxScore == 1
\* minutes the duel clock may run past its start, under Spec
DuelHorizon == 65
\* the same, under SpecWait
WaitHorizon == 10

\* /dino hatch commands started in one behaviour
MaxHatches == 2
\* /dino rename and /dino gift commands started in one behaviour
MaxOps == 1
\* /dino rename and /dino gift commands started in one behaviour of SpecOps
OpsMaxOps == 2
\* seconds the dino clock may run past its start
DinoHorizon == 10
\* the largest time of the last event, and the largest time of the call, that the
\* cooldown checks are called with on their own
MaxLastEvent == 2
MaxNow == 63

Users == {"u1", "u2"}
\* the users who issue /duel; every user may click an invitation
Challengers == Users
\* the one challenger of SpecWait
WaitChallengers == {"u1"}
None == "none"

Max(a, b) == IF a >= b THEN a ELSE b
Min(a, b) == IF a <= b THEN a ELSE b

(***************************************************************************)
(* Constants of duel.rs.  The duel clock counts minutes.                   *)
(***************************************************************************)
LOSS_COOLDOWN == 60
DEAD_DUEL_COOLDOWN == 5
\* minutes the duel clock advances in one step: under Spec, so that a loss
\* cooldown runs out; under SpecWait, so that clicks fall inside an acceptance wait
DuelTickSteps == {DEAD_DUEL_COOLDOWN, LOSS_COOLDOWN - DEAD_DUEL_COOLDOWN}
WaitTickSteps == {1, 4}
\* User.last_loss of a user who never lost: the epoch, the clock starts later
DuelClockStart == LOSS_COOLDOWN

(***************************************************************************)
(* Constants of dino/commands.rs.  The dino clock counts seconds.          *)
(***************************************************************************)
MAX_GENERATION_ATTEMPTS == 20
MAX_FAILED_HATCHES == 3
HATCH_COOLDOWN == 10
\* HATCH_FAILS_TEXT: &[&str; 3]
HATCH_FAILS_TEXT == <<"1st", "2nd", "3rd">>
\* pick_best_x_dice_rolls(4, 1, 1, None): one roll of a four-sided die
HatchRolls == 1 .. 4
\* seconds the dino clock advances in one step
DinoTickSteps == {HATCH_COOLDOWN \div 2}
\* DinoUser.last_hatch of a user who never hatched: the epoch, the clock starts later
DinoClockStart == HATCH_COOLDOWN

\* the tasks that run /dino hatch, and those that run /dino rename or /dino gift
HatchTasks == {"h1", "h2"}
OpTasks == {"o1", "o2"}
\* the tasks that run under SpecDino, and the hatch tasks that run under SpecOps
DinoOpTasks == {"o1"}
OpsHatchTasks == {"h1"}

\* Fragments, as setup_dinos reads them from FRAGMENT_PATH: the file stems, as
\* sequences of characters
Bodies == { <<"r", "e", "x", "_", "b">>, <<"r", "e", "x", "y", "_", "b">> }
Mouths == { <<"g", "r", "i", "n", "_", "m">> }
Eyes == { <<"w", "i", "d", "e", "_", "e">> }
\* DINO_IMAGE_SIZE, COLUMN_MARGIN, ROW_MARGIN, and the LIMIT of fetch_collection
DINO_IMAGE_SIZE == 112
COLUMN_MARGIN == 2
ROW_MARGIN == 2
COLLECTION_LIMIT == 25

\* the replacement names /dino rename is called with
Replacements == { <<"z">>, <<"r", "e", "x", "r", "i", "n", "i", "d", "e">> }

VARIABLES
    inProgress,   \* static IN_PROGRESS: AtomicBool
    dpc,          \* dpc[s]: where the /duel task of challenger s stands
    cand,         \* cand[s]: the user whose click find_opponent is handling / the accepter
    deadline,     \* deadline[s]: when the current collector of s times out
    waitStart,    \* waitStart[s]: when find_opponent was entered
    scores,       \* scores[s]: <<challenger_score, accepter_score>> of the duel
    penalised,    \* penalised[s]: members timeout_user restricted for this duel
    events,       \* events[s]: what this session did so far, in order
    lastNotice,   \* the rejection reply sent by the last step, if any: [to, text]
    started,      \* number of /duel commands started
    duelClock,    \* Utc::now(), in minutes
    lastLoss,     \* User.last_loss, committed
    stats,        \* DuelStats, committed
    dtx,          \* the open write transaction on the database: [owner, stats, lastLoss]
    dinoClock,    \* Utc::now(), in seconds
    dinoUser,     \* table DinoUser, committed: [present, last_hatch, consecutive_fails]
    dinos,        \* table Dino, committed: row i has id i
    ledger,       \* table DinoTransactions, committed
    files,        \* the files under OUTPUT_PATH: [name, image]
    htx,          \* the open write transaction of a hatch: [owner, dinos, ledger, dinoUser]
    hpc,          \* hpc[t]: where hatch task t stands
    huser,        \* huser[t]: ctx.author() of hatch task t
    hrec,         \* hrec[t]: hatcher_record, as read by get_user_record
    htries,       \* htries[t]: tries of generate_dino
    hparts,       \* hparts[t]: the DinoParts generate_dino returned
    hresult,      \* how the last step ended a hatch, if it did: [user, text]
    lastAttempt,  \* lastAttempt[u]: when u last hatched or failed the roll
    hatches,      \* number of /dino hatch commands started
    opc,          \* opc[o]: where rename/gift task o stands
    oarg,         \* oarg[o]: [user, dino, name, to] of the command of o
    oresult,      \* how the last step ended a rename or gift, if it did
    ops,          \* number of rename and gift commands started
    pure,         \* a call of a pure function: its arguments and, once done, its result
    rphase,       \* where the /rps task stands
    rchal,        \* ctx.author() of the /rps command
    racc,         \* accepter
    rdeadline,    \* when the collectors now listening time out
    rwait,        \* rwait[p]: where get_user_weapon_choice of participant p stands
    rclicked,     \* rclicked[p]: custom_id of the weapon button p pressed
    rorder,       \* the participants in the order their weapon clicks were collected
    rresult,      \* the text the invitation was edited to
    rpsClock      \* time, in seconds

duelVars == <<inProgress, dpc, cand, deadline, waitStart, scores, penalised, events,
              lastNotice, started, duelClock, lastLoss, stats, dtx>>

dinoVars == <<dinoClock, dinoUser, dinos, ledger, files, htx, hpc, huser, hrec, htries,
              hparts, hresult, lastAttempt, hatches, opc, oarg, oresult, ops>>

pureVars == <<pure>>

rpsVars == <<rphase, rchal, racc, rdeadline, rwait, rclicked, rorder, rresult, rpsClock>>

vars == <<duelVars, dinoVars, pureVars, rpsVars>>

(***************************************************************************)
(* DuelStats rows.                                                         *)
(***************************************************************************)
\* struct DuelStats; a user without a row has present = FALSE
DuelStats ==
    [present |-> FALSE, wins |-> 0, losses |-> 0, draws |-> 0,
     win_streak |-> 0, loss_streak |-> 0, win_streak_max |-> 0, loss_streak_max |-> 0]

\* a winner's upsert whose MAX compares against the streak before this win
UpsertWin_StaleMax(row) ==
    IF ~row.present
    THEN [DuelStats EXCEPT !.present = TRUE, !.wins = 1, !.win_streak = 1,
                           !.win_streak_max = 1]
    ELSE [row EXCEPT !.wins = row.wins + 1,
                     !.win_streak = row.win_streak + 1,
                     !.win_streak_max = Max(row.win_streak_max, row.win_streak),
                     !.loss_streak = 0]

\* a winner's upsert that forgets to end the loss streak
UpsertWin_KeepLossStreak(row) ==
    IF ~row.present
    THEN [DuelStats EXCEPT !.present = TRUE, !.wins = 1, !.win_streak = 1,
                           !.win_streak_max = 1]
    ELSE [row EXCEPT !.wins = row.wins + 1,
                     !.win_streak = row.win_streak + 1,
                     !.win_streak_max = Max(row.win_streak_max, row.win_streak + 1)]

\* first statement of update_users_win_loss: the winner's upsert
UpsertWin(row) ==
    IF ~row.present
    THEN [DuelStats EXCEPT !.present = TRUE, !.wins = 1, !.win_streak = 1,
                           !.win_streak_max = 1]
    ELSE [row EXCEPT !.wins = row.wins + 1,
                     !.win_streak = row.win_streak + 1,
                     !.win_streak_max = Max(row.win_streak_max, row.win_streak + 1),
                     !.loss_streak = 0]

\* a loser's upsert that forgets to end the win streak
UpsertLoss_KeepWinStreak(row) ==
    IF ~row.present
    THEN [DuelStats EXCEPT !.present = TRUE, !.losses = 1, !.loss_streak = 1,
                           !.loss_streak_max = 1]
    ELSE [row EXCEPT !.losses = row.losses + 1,
                     !.loss_streak = row.loss_streak + 1,
                     !.loss_streak_max = Max(row.loss_streak_max, row.loss_streak + 1)]

\* second statement of update_users_win_loss: the loser's upsert
UpsertLoss(row) ==
    IF ~row.present
    THEN [DuelStats EXCEPT !.present = TRUE, !.losses = 1, !.loss_streak = 1,
                           !.loss_streak_max = 1]
    ELSE [row EXCEPT !.losses = row.losses + 1,
                     !.loss_streak = row.loss_streak + 1,
                     !.loss_streak_max = Max(row.loss_streak_max, row.loss_streak + 1),
                     !.win_streak = 0]

\* the upsert of update_users_drawn, for one of its two rows
UpsertDraw(row) ==
    IF ~row.present
    THEN [DuelStats EXCEPT !.present = TRUE, !.draws = 1]
    ELSE [row EXCEPT !.draws = row.draws + 1, !.win_streak = 0, !.loss_streak = 0]

\* lines 274-282: DuelStats::current_streak, by the arm of its match
current_streak(row) ==
    CASE row.win_streak = 0 /\ row.loss_streak = 0 /\ row.draws = 0 -> "never"
      [] row.win_streak = 0 /\ row.loss_streak = 0 /\ row.draws # 0 -> "draw"
      [] row.win_streak = 0 /\ row.loss_streak # 0 -> "losses"
      [] row.win_streak # 0 /\ row.loss_streak = 0 -> "wins"
      [] OTHER -> "unreachable"

update_users_win_loss(db, winner_id, loser_id) ==
    LET afterWinner == [db EXCEPT ![winner_id] = UpsertWin(db[winner_id])]
    IN  [afterWinner EXCEPT ![loser_id] = UpsertLoss(afterWinner[loser_id])]

update_users_drawn(db, challenger_id, accepter_id) ==
    LET afterFirst == [db EXCEPT ![challenger_id] = UpsertDraw(db[challenger_id])]
    IN  [afterFirst EXCEPT ![accepter_id] = UpsertDraw(afterFirst[accepter_id])]

\* The write of User.last_loss that goes with a recorded loss.  No statement of
\* duel.rs writes the column: the write is part of the database schema.
RecordLastLoss(ll, loser_id, now) == [ll EXCEPT ![loser_id] = now]

\* the match of run_duel on challenger_score.cmp(&accepter_score), on the stats
DuelStatsUpdate(db, challenger, accepter, cs, as) ==
    IF cs > as THEN update_users_win_loss(db, challenger, accepter)
    ELSE IF cs < as THEN update_users_win_loss(db, accepter, challenger)
    ELSE update_users_drawn(db, challenger, accepter)

\* the same match, on last_loss
DuelLastLossUpdate(ll, challenger, accepter, cs, as, now) ==
    IF cs > as THEN RecordLastLoss(ll, accepter, now)
    ELSE IF cs < as THEN RecordLastLoss(ll, challenger, now)
    ELSE ll

\* a cooldown check that measures the loss cooldown with the wrong duration
CooldownActive_ShortCooldown(last_loss, now) == last_loss + DEAD_DUEL_COOLDOWN > now

\* DuelUser::ensure_outside_cooldown, given the last_loss read: TRUE when it bails
CooldownActive(last_loss, now) == last_loss + LOSS_COOLDOWN > now

NoNotice == [to |-> None, text |-> None]

NoTx == [owner |-> None, stats |-> [u \in Users |-> DuelStats],
         lastLoss |-> [u \in Users |-> 0]]

(***************************************************************************)
(* Initial state: no duel was ever started, nobody ever lost.              *)
(***************************************************************************)
DuelInit ==
    /\ inProgress = FALSE
    /\ dpc = [s \in Challengers |-> "idle"]
    /\ cand = [s \in Challengers |-> None]
    /\ deadline = [s \in Challengers |-> 0]
    /\ waitStart = [s \in Challengers |-> 0]
    /\ scores = [s \in Challengers |-> <<0, 0>>]
    /\ penalised = [s \in Challengers |-> {}]
    /\ events = [s \in Challengers |-> <<>>]
    /\ lastNotice = NoNotice
    /\ started = 0
    /\ duelClock = DuelClockStart
    /\ lastLoss = [u \in Users |-> 0]
    /\ stats = [u \in Users |-> DuelStats]
    /\ dtx = NoTx

(***************************************************************************)
(* duel(): lines 31-58.                                                    *)
(***************************************************************************)
\* line 34: IN_PROGRESS.load; TRUE -> bail_reply "A duel is already in progress"
DuelLoad(s) ==
    /\ dpc[s] = "idle"
    /\ started < MaxDuels
    /\ started' = started + 1
    /\ IF inProgress
       THEN /\ lastNotice' = [to |-> s, text |-> "in_progress"]
            /\ UNCHANGED dpc
       ELSE /\ dpc' = [dpc EXCEPT ![s] = "cooldown"]
            /\ lastNotice' = NoNotice
    /\ UNCHANGED <<inProgress, cand, deadline, waitStart, scores, penalised, events,
                   duelClock, lastLoss, stats, dtx>>
    /\ UNCHANGED <<dinoVars, pureVars, rpsVars>>

\* lines 38-40: challenger.ensure_outside_cooldown; dbok = FALSE: get_last_loss failed
DuelCooldown(s, dbok) ==
    /\ dpc[s] = "cooldown"
    /\ IF ~dbok
       THEN /\ lastNotice' = [to |-> s, text |-> "no_last_loss"]
            /\ dpc' = [dpc EXCEPT ![s] = "idle"]
       ELSE IF CooldownActive(lastLoss[s], duelClock)
       THEN /\ lastNotice' = [to |-> s, text |-> "cooldown"]
            /\ dpc' = [dpc EXCEPT ![s] = "idle"]
       ELSE /\ dpc' = [dpc EXCEPT ![s] = "send"]
            /\ lastNotice' = NoNotice
    /\ UNCHANGED <<inProgress, cand, deadline, waitStart, scores, penalised, events,
                   started, duelClock, lastLoss, stats, dtx>>
    /\ UNCHANGED <<dinoVars, pureVars, rpsVars>>

\* lines 42-48: ctx.send of the invitation; ok = FALSE: the `?` returns the error
DuelSend(s, ok) ==
    /\ dpc[s] = "send"
    /\ IF ok
       THEN /\ dpc' = [dpc EXCEPT ![s] = "store"]
            /\ events' = [events EXCEPT ![s] = <<"posted">>]
       ELSE /\ dpc' = [dpc EXCEPT ![s] = "idle"]
            /\ UNCHANGED events
    /\ UNCHANGED <<inProgress, cand, deadline, waitStart, scores, penalised, started,
                   duelClock, lastLoss, stats, dtx>>
    /\ lastNotice' = NoNotice
    /\ UNCHANGED <<dinoVars, pureVars, rpsVars>>

\* line 51: IN_PROGRESS.store(true)
DuelStoreTrue(s) ==
    /\ dpc[s] = "store"
    /\ inProgress' = TRUE
    /\ dpc' = [dpc EXCEPT ![s] = "message"]
    /\ UNCHANGED <<cand, deadline, waitStart, scores, penalised, events, started,
                   duelClock, lastLoss, stats, dtx>>
    /\ lastNotice' = NoNotice
    /\ UNCHANGED <<dinoVars, pureVars, rpsVars>>

\* a session that clears the flag only when run_duel returned Ok, as a `?` on
\* run_duel would
DuelStoreFalse_OnlyOnOk(s) ==
    /\ dpc[s] = "close"
    /\ inProgress' = IF \E i \in DOMAIN events[s] :
                           events[s][i] \in {"committed", "expired_edit"}
                      THEN FALSE ELSE inProgress
    /\ dpc' = [dpc EXCEPT ![s] = "idle"]
    /\ cand' = [cand EXCEPT ![s] = None]
    /\ deadline' = [deadline EXCEPT ![s] = 0]
    /\ waitStart' = [waitStart EXCEPT ![s] = 0]
    /\ scores' = [scores EXCEPT ![s] = <<0, 0>>]
    /\ penalised' = [penalised EXCEPT ![s] = {}]
    /\ events' = [events EXCEPT ![s] = <<>>]
    /\ UNCHANGED <<started, duelClock, lastLoss, stats, dtx>>
    /\ lastNotice' = NoNotice
    /\ UNCHANGED <<dinoVars, pureVars, rpsVars>>

\* line 55: IN_PROGRESS.store(false), after run_duel returned Ok or Err
DuelStoreFalse(s) ==
    /\ dpc[s] = "close"
    /\ inProgress' = FALSE
    /\ dpc' = [dpc EXCEPT ![s] = "idle"]
    /\ cand' = [cand EXCEPT ![s] = None]
    /\ deadline' = [deadline EXCEPT ![s] = 0]
    /\ waitStart' = [waitStart EXCEPT ![s] = 0]
    /\ scores' = [scores EXCEPT ![s] = <<0, 0>>]
    /\ penalised' = [penalised EXCEPT ![s] = {}]
    /\ events' = [events EXCEPT ![s] = <<>>]
    /\ UNCHANGED <<started, duelClock, lastLoss, stats, dtx>>
    /\ lastNotice' = NoNotice
    /\ UNCHANGED <<dinoVars, pureVars, rpsVars>>

(***************************************************************************)
(* run_duel(): lines 60-117, and find_opponent(): lines 119-158.           *)
(***************************************************************************)
\* the collector of find_opponent is dropped and the loop starts a new one (line 124)
NewCollector(s) ==
    /\ dpc' = [dpc EXCEPT ![s] = "wait"]
    /\ deadline' = [deadline EXCEPT ![s] = duelClock + DEAD_DUEL_COOLDOWN]

\* find_opponent returns None: an ephemeral reply failed (`.ok()?`) or the wait timed out
OpponentNone(s) ==
    /\ dpc' = [dpc EXCEPT ![s] = "edit"]
    /\ UNCHANGED deadline

\* line 65: reply_handle.message(); then find_opponent builds its first collector
RunDuelMessage(s, ok) ==
    /\ dpc[s] = "message"
    /\ IF ok
       THEN /\ NewCollector(s)
            /\ waitStart' = [waitStart EXCEPT ![s] = duelClock]
       ELSE /\ dpc' = [dpc EXCEPT ![s] = "close"]
            /\ UNCHANGED <<deadline, waitStart>>
    /\ UNCHANGED <<inProgress, cand, scores, penalised, events, started,
                   duelClock, lastLoss, stats, dtx>>
    /\ lastNotice' = NoNotice
    /\ UNCHANGED <<dinoVars, pureVars, rpsVars>>

\* a find_opponent without the check for the challenger's own click
Click_NoOwnCheck(s, v, ok) ==
    /\ dpc[s] = "wait"
    /\ duelClock < deadline[s]
    /\ IF ~inProgress
       THEN /\ lastNotice' = [to |-> v, text |-> "beaten"]
            /\ IF ok THEN NewCollector(s) ELSE OpponentNone(s)
            /\ UNCHANGED cand
       ELSE /\ dpc' = [dpc EXCEPT ![s] = "accepter"]
            /\ cand' = [cand EXCEPT ![s] = v]
            /\ lastNotice' = NoNotice
            /\ UNCHANGED deadline
    /\ UNCHANGED <<inProgress, waitStart, scores, penalised, events, started,
                   duelClock, lastLoss, stats, dtx>>
    /\ UNCHANGED <<dinoVars, pureVars, rpsVars>>

\* lines 124-145: the collector yields a click of user v on the invitation of s;
\* ok = FALSE: the ephemeral reply to the click failed
Click(s, v, ok) ==
    /\ dpc[s] = "wait"
    /\ duelClock < deadline[s]
    /\ IF v = s
       THEN /\ lastNotice' = [to |-> v, text |-> "own_duel"]
            /\ IF ok THEN NewCollector(s) ELSE OpponentNone(s)
            /\ UNCHANGED cand
       ELSE IF ~inProgress
       THEN /\ lastNotice' = [to |-> v, text |-> "beaten"]
            /\ IF ok THEN NewCollector(s) ELSE OpponentNone(s)
            /\ UNCHANGED cand
       ELSE /\ dpc' = [dpc EXCEPT ![s] = "accepter"]
            /\ cand' = [cand EXCEPT ![s] = v]
            /\ lastNotice' = NoNotice
            /\ UNCHANGED deadline
    /\ UNCHANGED <<inProgress, waitStart, scores, penalised, events, started,
                   duelClock, lastLoss, stats, dtx>>
    /\ UNCHANGED <<dinoVars, pureVars, rpsVars>>

\* lines 147-154: accepter.ensure_outside_cooldown for the user who clicked
AcceptCheck(s, dbok, ok) ==
    /\ dpc[s] = "accepter"
    /\ IF ~dbok \/ CooldownActive(lastLoss[cand[s]], duelClock)
       THEN /\ lastNotice' = [to |-> cand[s],
                              text |-> IF dbok THEN "cooldown" ELSE "no_last_loss"]
            /\ IF ok THEN NewCollector(s) ELSE OpponentNone(s)
            /\ cand' = [cand EXCEPT ![s] = None]
            /\ UNCHANGED events
       ELSE /\ dpc' = [dpc EXCEPT ![s] = "resolve"]
            /\ events' = [events EXCEPT ![s] = Append(@, "accepted")]
            /\ lastNotice' = NoNotice
            /\ UNCHANGED <<deadline, cand>>
    /\ UNCHANGED <<inProgress, waitStart, scores, penalised, started,
                   duelClock, lastLoss, stats, dtx>>
    /\ UNCHANGED <<dinoVars, pureVars, rpsVars>>

\* line 124-128: the collector's timeout(DEAD_DUEL_COOLDOWN) fires
Timeout(s) ==
    /\ dpc[s] = "wait"
    /\ duelClock >= deadline[s]
    /\ OpponentNone(s)
    /\ UNCHANGED <<inProgress, cand, waitStart, scores, penalised, events,
                   started, duelClock, lastLoss, stats, dtx>>
    /\ lastNotice' = NoNotice
    /\ UNCHANGED <<dinoVars, pureVars, rpsVars>>

\* a run_duel that listens for clicks again after the expiry edit
RunDuelExpired_Reopens(s, ok) ==
    /\ dpc[s] = "edit"
    /\ dpc' = [dpc EXCEPT ![s] = "wait"]
    /\ events' = [events EXCEPT ![s] = IF ok THEN Append(@, "expired_edit") ELSE @]
    /\ UNCHANGED <<inProgress, cand, deadline, waitStart, scores, penalised, started,
                   duelClock, lastLoss, stats, dtx>>
    /\ lastNotice' = NoNotice
    /\ UNCHANGED <<dinoVars, pureVars, rpsVars>>

\* lines 68-76: no opponent: the invitation is edited; Ok or Err, run_duel returns
RunDuelExpired(s, ok) ==
    /\ dpc[s] = "edit"
    /\ dpc' = [dpc EXCEPT ![s] = "close"]
    /\ events' = [events EXCEPT ![s] = IF ok THEN Append(@, "expired_edit") ELSE @]
    /\ UNCHANGED <<inProgress, cand, deadline, waitStart, scores, penalised, started,
                   duelClock, lastLoss, stats, dtx>>
    /\ lastNotice' = NoNotice
    /\ UNCHANGED <<dinoVars, pureVars, rpsVars>>

\* lines 78-108: pick_scores, begin, the update inside the transaction, and for a
\* draw timeout_user for both members (each may fail or find no member: logged).
\* ok = FALSE: acquire, begin or the update failed (the database is locked by
\* another writer, or any other error)
RunDuelUpdate(s, cs, as, pen, ok) ==
    /\ dpc[s] = "resolve"
    /\ pen \subseteq {s, cand[s]}
    /\ IF ok
       THEN /\ dtx.owner = None
            /\ dtx' = [owner |-> s,
                       stats |-> DuelStatsUpdate(stats, s, cand[s], cs, as),
                       lastLoss |-> DuelLastLossUpdate(lastLoss, s, cand[s], cs, as,
                                                       duelClock)]
            /\ scores' = [scores EXCEPT ![s] = <<cs, as>>]
            /\ penalised' = [penalised EXCEPT ![s] = IF cs = as THEN pen ELSE {}]
            /\ events' = [events EXCEPT ![s] = Append(@, "updated")]
            /\ dpc' = [dpc EXCEPT ![s] = "announce"]
       ELSE /\ dpc' = [dpc EXCEPT ![s] = "close"]
            /\ UNCHANGED <<dtx, scores, penalised, events>>
    /\ UNCHANGED <<inProgress, cand, deadline, waitStart, started,
                   duelClock, lastLoss, stats>>
    /\ lastNotice' = NoNotice
    /\ UNCHANGED <<dinoVars, pureVars, rpsVars>>

\* lines 110-112: interaction.create_response with the result; on Err the
\* transaction is dropped, which rolls it back
RunDuelAnnounce(s, ok) ==
    /\ dpc[s] = "announce"
    /\ IF ok
       THEN /\ events' = [events EXCEPT ![s] = Append(@, "announced")]
            /\ dpc' = [dpc EXCEPT ![s] = "commit"]
            /\ UNCHANGED dtx
       ELSE /\ dtx' = NoTx
            /\ dpc' = [dpc EXCEPT ![s] = "close"]
            /\ UNCHANGED events
    /\ UNCHANGED <<inProgress, cand, deadline, waitStart, scores, penalised, started,
                   duelClock, lastLoss, stats>>
    /\ lastNotice' = NoNotice
    /\ UNCHANGED <<dinoVars, pureVars, rpsVars>>

\* line 114: transaction.commit()
RunDuelCommit(s, ok) ==
    /\ dpc[s] = "commit"
    /\ dtx' = NoTx
    /\ dpc' = [dpc EXCEPT ![s] = "close"]
    /\ IF ok
       THEN /\ stats' = dtx.stats
            /\ lastLoss' = dtx.lastLoss
            /\ events' = [events EXCEPT ![s] = Append(@, "committed")]
       ELSE UNCHANGED <<stats, lastLoss, events>>
    /\ UNCHANGED <<inProgress, cand, deadline, waitStart, scores, penalised, started,
                   duelClock>>
    /\ lastNotice' = NoNotice
    /\ UNCHANGED <<dinoVars, pureVars, rpsVars>>

\* Time passes.  A collector's timeout fires when it is due: the clock does not
\* pass a deadline of a waiting session.  Storage and platform calls are short
\* against a minute: the clock moves while every task is idle or waiting.
DuelTick(d, horizon) ==
    /\ \A s \in Challengers : dpc[s] \in {"idle", "wait"}
    /\ \A s \in Challengers : dpc[s] = "wait" => duelClock + d <= deadline[s]
    /\ duelClock + d <= DuelClockStart + horizon
    /\ duelClock' = duelClock + d
    /\ UNCHANGED <<inProgress, dpc, cand, deadline, waitStart, scores, penalised,
                   events, started, lastLoss, stats, dtx>>
    /\ lastNotice' = NoNotice
    /\ UNCHANGED <<dinoVars, pureVars, rpsVars>>

\* one step of a /duel task of a challenger of S
DuelSteps(S) ==
    \/ \E s \in S : DuelLoad(s)
    \/ \E s \in S, dbok \in BOOLEAN : DuelCooldown(s, dbok)
    \/ \E s \in S, ok \in BOOLEAN : DuelSend(s, ok)
    \/ \E s \in S : DuelStoreTrue(s)
    \/ \E s \in S, ok \in BOOLEAN : RunDuelMessage(s, ok)
    \/ \E s \in S, v \in Users, ok \in BOOLEAN : Click(s, v, ok)
    \/ \E s \in S, dbok \in BOOLEAN, ok \in BOOLEAN : AcceptCheck(s, dbok, ok)
    \/ \E s \in S : Timeout(s)
    \/ \E s \in S, ok \in BOOLEAN : RunDuelExpired(s, ok)
    \/ \E s \in S, cs \in 0..MaxScore, as \in 0..MaxScore,
          pen \in SUBSET Users, ok \in BOOLEAN : RunDuelUpdate(s, cs, as, pen, ok)
    \/ \E s \in S, ok \in BOOLEAN : RunDuelAnnounce(s, ok)
    \/ \E s \in S, ok \in BOOLEAN : RunDuelCommit(s, ok)
    \/ \E s \in S : DuelStoreFalse(s)

DuelNext ==
    \/ DuelSteps(Challengers)
    \/ \E d \in DuelTickSteps : DuelTick(d, DuelHorizon)

WaitNext ==
    \/ DuelSteps(WaitChallengers)
    \/ \E d \in WaitTickSteps : DuelTick(d, WaitHorizon)

(***************************************************************************)
(* /dino: the tables and the pure functions of dino/commands.rs.           *)
(***************************************************************************)
\* struct UserRecord, with the row's existence
UserRecord == [present |-> FALSE, last_hatch |-> 0, consecutive_fails |-> 0]

\* struct DinoParts
NoParts == [body |-> <<>>, mouth |-> <<>>, eyes |-> <<>>, name |-> <<>>]

NoResult == [user |-> None, text |-> None]
NoArg == [user |-> None, dino |-> 0, name |-> <<>>, to |-> None]
NoHtx == [owner |-> None, dinos |-> <<>>, ledger |-> <<>>,
          dinoUser |-> [u \in Users |-> UserRecord]]

\* str::replace(pat, ""), for a pattern of two characters
RECURSIVE Remove2(_, _, _)
Remove2(str, c1, c2) ==
    IF Len(str) < 2 THEN str
    ELSE IF str[1] = c1 /\ str[2] = c2 THEN Remove2(SubSeq(str, 3, Len(str)), c1, c2)
    ELSE <<str[1]>> \o Remove2(Tail(str), c1, c2)

\* &str[from..], from counted from 0
SliceFrom(str, from) == SubSeq(str, from + 1, Len(str))

\* generate_dino_name, on the file stems of the three parts
generate_dino_name(body_stem, mouth_stem, eyes_stem) ==
    LET body == Remove2(body_stem, "_", "b")
        mouth == Remove2(mouth_stem, "_", "m")
        eyes == Remove2(eyes_stem, "_", "e")
        body_end == Min(3, Len(body))
        mouth_start == Min(3, Len(mouth) - 3)
        eyes_start == Min(6, Len(eyes) - 3)
    IN  SubSeq(body, 1, body_end) \o SliceFrom(mouth, mouth_start)
            \o SliceFrom(eyes, eyes_start)

\* choose_parts, for the three fragments the random choice picked
choose_parts(b, m, e) ==
    [body |-> b, mouth |-> m, eyes |-> e, name |-> generate_dino_name(b, m, e)]

\* are_parts_duplicate: SELECT id FROM Dino WHERE body = ? AND mouth = ? AND eyes = ?
are_parts_duplicate(db, parts) ==
    \E i \in DOMAIN db :
        db[i].body = parts.body /\ db[i].mouth = parts.mouth /\ db[i].eyes = parts.eyes

\* the loop of generate_dino after a duplicate: TRUE when it returns Ok(None)
Exhausted(tries) == tries > MAX_GENERATION_ATTEMPTS

\* a roll check that forgets the failures already counted
RollFails_IgnoresPity(hatch_roll, consecutive_fails) ==
    hatch_roll <= MAX_FAILED_HATCHES

\* a roll check that is off by one
RollFails_OffByOne(hatch_roll, consecutive_fails) ==
    hatch_roll <= MAX_FAILED_HATCHES - consecutive_fails + 1

\* the roll check of hatch: TRUE when the hatch fails
RollFails(hatch_roll, consecutive_fails) ==
    hatch_roll <= MAX_FAILED_HATCHES - consecutive_fails

\* a cooldown check that still blocks at the instant the cooldown ends
HatchTooEarly_Inclusive(last_hatch, now) == last_hatch + HATCH_COOLDOWN >= now

\* the cooldown check of hatch: TRUE when it answers "Can't hatch yet"
HatchTooEarly(last_hatch, now) == last_hatch + HATCH_COOLDOWN > now

\* Dino.name is UNIQUE: TRUE when a row other than `except` holds the name
NameTaken(db, dino_name, except) ==
    \E i \in DOMAIN db : i # except /\ db[i].name = dino_name

\* INSERT OR IGNORE INTO DinoUser (id) VALUES (?)
EnsureDinoUser(du, user_id) == [du EXCEPT ![user_id].present = TRUE]

\* update_failed_hatches
update_failed_hatches(du, user_id) ==
    [du EXCEPT ![user_id].consecutive_fails = @ + 1]

\* generate_dino_image: the file at OUTPUT_PATH/<name>.png is written, or replaced
WriteImage(fs, parts) ==
    {f \in fs : f.name # parts.name}
        \cup {[name |-> parts.name, image |-> <<parts.body, parts.mouth, parts.eyes>>]}

\* the INSERT INTO Dino of insert_dino
InsertDinoRow(db, user_id, parts) ==
    Append(db, [owner |-> user_id, name |-> parts.name, filename |-> parts.name,
                body |-> parts.body, mouth |-> parts.mouth, eyes |-> parts.eyes])

\* get_dino_record: the id of the row of that name, 0 when there is none
get_dino_record(db, dino_name) ==
    IF \E i \in DOMAIN db : db[i].name = dino_name
    THEN CHOOSE i \in DOMAIN db : db[i].name = dino_name
    ELSE 0

\* the names a command can be given
DinoNames ==
    Replacements \cup
        {generate_dino_name(b, m, e) : b \in Bodies, m \in Mouths, e \in Eyes}

\* the DinoUser table when the first user has f failed rolls behind them, long
\* enough ago, and the other users are new
DinoUserAfterFails(f) ==
    [u \in Users |->
        IF u = "u1" /\ f > 0
        THEN [present |-> TRUE, last_hatch |-> 0, consecutive_fails |-> f]
        ELSE UserRecord]

\* the state of /dino with f failed rolls in the first user's history
DinoInitWith(f) ==
    /\ dinoClock = DinoClockStart
    /\ dinoUser = DinoUserAfterFails(f)
    /\ dinos = <<>>
    /\ ledger = <<>>
    /\ files = {}
    /\ htx = NoHtx
    /\ hpc = [t \in HatchTasks |-> "idle"]
    /\ huser = [t \in HatchTasks |-> None]
    /\ hrec = [t \in HatchTasks |-> UserRecord]
    /\ htries = [t \in HatchTasks |-> 0]
    /\ hparts = [t \in HatchTasks |-> NoParts]
    /\ hresult = NoResult
    /\ lastAttempt = [u \in Users |-> 0]
    /\ hatches = 0
    /\ opc = [o \in OpTasks |-> "idle"]
    /\ oarg = [o \in OpTasks |-> NoArg]
    /\ oresult = NoResult
    /\ ops = 0

\* empty tables
DinoInit == DinoInitWith(0)

\* the first user has any number of failed rolls up to MAX_FAILED_HATCHES behind them
DinoInitHistory == \E f \in 0 .. MAX_FAILED_HATCHES : DinoInitWith(f)

\* a hatch task returns: its locals are dropped
HatchReturn(t, u, text) ==
    /\ hpc' = [hpc EXCEPT ![t] = "idle"]
    /\ huser' = [huser EXCEPT ![t] = None]
    /\ hrec' = [hrec EXCEPT ![t] = UserRecord]
    /\ htries' = [htries EXCEPT ![t] = 0]
    /\ hparts' = [hparts EXCEPT ![t] = NoParts]
    /\ hresult' = [user |-> u, text |-> text]

(***************************************************************************)
(* hatch(): lines 88-158.                                                  *)
(***************************************************************************)
\* lines 89-98: get_user_record and the cooldown check; ok = FALSE: the query failed
HatchStart(t, u, ok) ==
    /\ hpc[t] = "idle"
    /\ hatches < MaxHatches
    /\ hatches' = hatches + 1
    /\ IF ~ok
       THEN /\ HatchReturn(t, u, "error")
            /\ UNCHANGED dinoUser
       ELSE /\ htx.owner = None
            /\ dinoUser' = EnsureDinoUser(dinoUser, u)
            /\ IF HatchTooEarly(dinoUser[u].last_hatch, dinoClock)
               THEN HatchReturn(t, u, "cant_hatch")
               ELSE /\ hpc' = [hpc EXCEPT ![t] = "roll"]
                    /\ huser' = [huser EXCEPT ![t] = u]
                    /\ hrec' = [hrec EXCEPT ![t] = dinoUser'[u]]
                    /\ hresult' = NoResult
                    /\ UNCHANGED <<htries, hparts>>
    /\ oresult' = NoResult
    /\ UNCHANGED <<dinoClock, dinos, ledger, files, htx, lastAttempt, opc, oarg, ops>>
    /\ UNCHANGED <<duelVars, pureVars, rpsVars>>

\* lines 100-119: the roll; on a failed roll update_failed_hatches and the reply,
\* which indexes HATCH_FAILS_TEXT; ok = FALSE: the UPDATE failed
HatchRoll(t, hatch_roll, ok) ==
    /\ hpc[t] = "roll"
    /\ IF RollFails(hatch_roll, hrec[t].consecutive_fails)
       THEN IF ok
            THEN /\ htx.owner = None
                 /\ dinoUser' = update_failed_hatches(dinoUser, huser[t])
                 /\ lastAttempt' = [lastAttempt EXCEPT ![huser[t]] = dinoClock]
                 /\ HatchReturn(t, huser[t],
                        IF hrec[t].consecutive_fails + 1 \in DOMAIN HATCH_FAILS_TEXT
                        THEN "failed_roll" ELSE "panic")
            ELSE /\ HatchReturn(t, huser[t], "error")
                 /\ UNCHANGED <<dinoUser, lastAttempt>>
       ELSE /\ hpc' = [hpc EXCEPT ![t] = "generate"]
            /\ hresult' = NoResult
            /\ UNCHANGED <<dinoUser, lastAttempt, huser, hrec, htries, hparts>>
    /\ oresult' = NoResult
    /\ UNCHANGED <<dinoClock, dinos, ledger, files, htx, hatches, opc, oarg, ops>>
    /\ UNCHANGED <<duelVars, pureVars, rpsVars>>

\* a hatch that counts an exhausted generation as a failed hatch
HatchGenerate_CountsExhaustion(t, b, m, e, ok) ==
    /\ hpc[t] = "generate"
    /\ IF ~ok
       THEN /\ HatchReturn(t, huser[t], "error")
            /\ UNCHANGED dinoUser
       ELSE IF ~are_parts_duplicate(dinos, choose_parts(b, m, e))
       THEN /\ hparts' = [hparts EXCEPT ![t] = choose_parts(b, m, e)]
            /\ hpc' = [hpc EXCEPT ![t] = "image"]
            /\ hresult' = NoResult
            /\ UNCHANGED <<huser, hrec, htries, dinoUser>>
       ELSE IF Exhausted(htries[t] + 1)
       THEN /\ HatchReturn(t, huser[t], "exhausted")
            /\ dinoUser' = update_failed_hatches(dinoUser, huser[t])
       ELSE /\ htries' = [htries EXCEPT ![t] = @ + 1]
            /\ hresult' = NoResult
            /\ UNCHANGED <<hpc, huser, hrec, hparts, dinoUser>>
    /\ oresult' = NoResult
    /\ UNCHANGED <<dinoClock, dinos, ledger, files, htx, lastAttempt,
                   hatches, opc, oarg, ops>>
    /\ UNCHANGED <<duelVars, pureVars, rpsVars>>

\* lines 320-332: one turn of the loop of generate_dino, for the fragments b, m, e
\* that choose_parts picks; ok = FALSE: are_parts_duplicate failed
HatchGenerate(t, b, m, e, ok) ==
    /\ hpc[t] = "generate"
    /\ IF ~ok
       THEN HatchReturn(t, huser[t], "error")
       ELSE IF ~are_parts_duplicate(dinos, choose_parts(b, m, e))
       THEN /\ hparts' = [hparts EXCEPT ![t] = choose_parts(b, m, e)]
            /\ hpc' = [hpc EXCEPT ![t] = "image"]
            /\ hresult' = NoResult
            /\ UNCHANGED <<huser, hrec, htries>>
       ELSE IF Exhausted(htries[t] + 1)
       THEN HatchReturn(t, huser[t], "exhausted")
       ELSE /\ htries' = [htries EXCEPT ![t] = @ + 1]
            /\ hresult' = NoResult
            /\ UNCHANGED <<hpc, huser, hrec, hparts>>
    /\ oresult' = NoResult
    /\ UNCHANGED <<dinoClock, dinoUser, dinos, ledger, files, htx, lastAttempt,
                   hatches, opc, oarg, ops>>
    /\ UNCHANGED <<duelVars, pureVars, rpsVars>>

\* line 139: generate_dino_image; ok = FALSE: a fragment could not be read
HatchImage(t, ok) ==
    /\ hpc[t] = "image"
    /\ IF ok
       THEN /\ files' = WriteImage(files, hparts[t])
            /\ hpc' = [hpc EXCEPT ![t] = "insert"]
            /\ hresult' = NoResult
            /\ UNCHANGED <<huser, hrec, htries, hparts>>
       ELSE /\ HatchReturn(t, huser[t], "error")
            /\ UNCHANGED files
    /\ oresult' = NoResult
    /\ UNCHANGED <<dinoClock, dinoUser, dinos, ledger, htx, lastAttempt, hatches,
                   opc, oarg, ops>>
    /\ UNCHANGED <<duelVars, pureVars, rpsVars>>

\* lines 141-150: begin and insert_dino, inside the transaction; ok = FALSE: the
\* database is locked by another writer, or another error: the `?` drops the
\* transaction.  A taken name fails the INSERT.
HatchInsert(t, ok) ==
    /\ hpc[t] = "insert"
    /\ IF ok /\ ~NameTaken(dinos, hparts[t].name, 0)
       THEN /\ htx.owner = None
            /\ htx' = [owner |-> t,
                       dinos |-> InsertDinoRow(dinos, huser[t], hparts[t]),
                       ledger |-> Append(ledger, [dino_id |-> Len(dinos) + 1,
                                                  user_id |-> huser[t],
                                                  gifter_id |-> None,
                                                  type |-> "HATCH"]),
                       dinoUser |-> [dinoUser EXCEPT
                                        ![huser[t]].last_hatch = dinoClock,
                                        ![huser[t]].consecutive_fails = 0]]
            /\ hpc' = [hpc EXCEPT ![t] = "embed"]
            /\ hresult' = NoResult
            /\ UNCHANGED <<huser, hrec, htries, hparts>>
       ELSE /\ HatchReturn(t, huser[t], "error")
            /\ UNCHANGED htx
    /\ oresult' = NoResult
    /\ UNCHANGED <<dinoClock, dinoUser, dinos, ledger, files, lastAttempt, hatches,
                   opc, oarg, ops>>
    /\ UNCHANGED <<duelVars, pureVars, rpsVars>>

\* lines 152-153: send_dino_embed; on Err the transaction is dropped
HatchEmbed(t, ok) ==
    /\ hpc[t] = "embed"
    /\ IF ok
       THEN /\ hpc' = [hpc EXCEPT ![t] = "commit"]
            /\ hresult' = NoResult
            /\ UNCHANGED <<htx, huser, hrec, htries, hparts>>
       ELSE /\ htx' = NoHtx
            /\ HatchReturn(t, huser[t], "error")
    /\ oresult' = NoResult
    /\ UNCHANGED <<dinoClock, dinoUser, dinos, ledger, files, lastAttempt, hatches,
                   opc, oarg, ops>>
    /\ UNCHANGED <<duelVars, pureVars, rpsVars>>

\* a commit that, when it fails, leaves the Dino row behind
HatchCommit_KeepsRowOnFailure(t, ok) ==
    /\ hpc[t] = "commit"
    /\ htx' = NoHtx
    /\ IF ok
       THEN /\ dinos' = htx.dinos
            /\ ledger' = htx.ledger
            /\ dinoUser' = htx.dinoUser
            /\ lastAttempt' = [lastAttempt EXCEPT
                                  ![huser[t]] = htx.dinoUser[huser[t]].last_hatch]
            /\ HatchReturn(t, huser[t], "hatched")
       ELSE /\ dinos' = htx.dinos
            /\ HatchReturn(t, huser[t], "error")
            /\ UNCHANGED <<ledger, dinoUser, lastAttempt>>
    /\ oresult' = NoResult
    /\ UNCHANGED <<dinoClock, files, hatches, opc, oarg, ops>>
    /\ UNCHANGED <<duelVars, pureVars, rpsVars>>

\* line 155: transaction.commit()
HatchCommit(t, ok) ==
    /\ hpc[t] = "commit"
    /\ htx' = NoHtx
    /\ IF ok
       THEN /\ dinos' = htx.dinos
            /\ ledger' = htx.ledger
            /\ dinoUser' = htx.dinoUser
            /\ lastAttempt' = [lastAttempt EXCEPT
                                  ![huser[t]] = htx.dinoUser[huser[t]].last_hatch]
            /\ HatchReturn(t, huser[t], "hatched")
       ELSE /\ HatchReturn(t, huser[t], "error")
            /\ UNCHANGED <<dinos, ledger, dinoUser, lastAttempt>>
    /\ oresult' = NoResult
    /\ UNCHANGED <<dinoClock, files, hatches, opc, oarg, ops>>
    /\ UNCHANGED <<duelVars, pureVars, rpsVars>>

(***************************************************************************)
(* rename(): lines 213-239, and gift(): lines 272-301.                     *)
(***************************************************************************)
\* an op task returns
OpReturn(o, u, text) ==
    /\ opc' = [opc EXCEPT ![o] = "idle"]
    /\ oarg' = [oarg EXCEPT ![o] = NoArg]
    /\ oresult' = [user |-> u, text |-> text]

\* lines 214-222 and 273-281: get_dino_record and the owner check of the command
\* cmd ("rename" or "gift") of user u on the dino called dino_name
OpStart(o, cmd, u, dino_name, replacement, recipient, limit) ==
    /\ opc[o] = "idle"
    /\ ops < limit
    /\ ops' = ops + 1
    /\ LET id == get_dino_record(dinos, dino_name)
       IN  IF id = 0 THEN OpReturn(o, u, "not_found")
           ELSE IF dinos[id].owner # u THEN OpReturn(o, u, "not_owner")
           ELSE /\ opc' = [opc EXCEPT ![o] = cmd]
                /\ oarg' = [oarg EXCEPT ![o] =
                              [user |-> u, dino |-> id,
                               name |-> IF cmd = "rename" THEN replacement ELSE <<>>,
                               to |-> IF cmd = "gift" THEN recipient ELSE None]]
                /\ oresult' = NoResult
    /\ hresult' = NoResult
    /\ UNCHANGED <<dinoClock, dinoUser, dinos, ledger, files, htx, hpc, huser, hrec,
                   htries, hparts, lastAttempt, hatches>>
    /\ UNCHANGED <<duelVars, pureVars, rpsVars>>

\* a rename whose UPDATE goes through whoever holds the name
RenameUpdate_IgnoresConflict(o, ok) ==
    /\ opc[o] = "rename"
    /\ IF ~ok
       THEN /\ OpReturn(o, oarg[o].user, "error")
            /\ UNCHANGED dinos
       ELSE /\ htx.owner = None
            /\ dinos' = [dinos EXCEPT ![oarg[o].dino].name = oarg[o].name]
            /\ OpReturn(o, oarg[o].user, "renamed")
    /\ hresult' = NoResult
    /\ UNCHANGED <<dinoClock, dinoUser, ledger, files, htx, hpc, huser, hrec, htries,
                   hparts, lastAttempt, hatches, ops>>
    /\ UNCHANGED <<duelVars, pureVars, rpsVars>>

\* lines 224-236: update_dino_name; a taken name is SQLite's error 2067;
\* ok = FALSE: another error
RenameUpdate(o, ok) ==
    /\ opc[o] = "rename"
    /\ IF ~ok
       THEN /\ OpReturn(o, oarg[o].user, "error")
            /\ UNCHANGED dinos
       ELSE /\ htx.owner = None
            /\ IF NameTaken(dinos, oarg[o].name, oarg[o].dino)
               THEN /\ OpReturn(o, oarg[o].user, "name_taken")
                    /\ UNCHANGED dinos
               ELSE /\ dinos' = [dinos EXCEPT ![oarg[o].dino].name = oarg[o].name]
                    /\ OpReturn(o, oarg[o].user, "renamed")
    /\ hresult' = NoResult
    /\ UNCHANGED <<dinoClock, dinoUser, ledger, files, htx, hpc, huser, hrec, htries,
                   hparts, lastAttempt, hatches, ops>>
    /\ UNCHANGED <<duelVars, pureVars, rpsVars>>

\* a gift_dino that writes its ledger entry twice
GiftDino_TwoEntries(o, done) ==
    /\ opc[o] = "gift"
    /\ done > 0 => htx.owner = None
    /\ dinoUser' = IF done >= 1 THEN EnsureDinoUser(dinoUser, oarg[o].to) ELSE dinoUser
    /\ ledger' = IF done >= 2
                 THEN ledger \o
                        << [dino_id |-> oarg[o].dino, user_id |-> oarg[o].to,
                            gifter_id |-> oarg[o].user, type |-> "GIFT"],
                           [dino_id |-> oarg[o].dino, user_id |-> oarg[o].to,
                            gifter_id |-> oarg[o].user, type |-> "GIFT"] >>
                 ELSE ledger
    /\ dinos' = IF done >= 3
                THEN [dinos EXCEPT ![oarg[o].dino].owner = oarg[o].to]
                ELSE dinos
    /\ OpReturn(o, oarg[o].user, IF done >= 3 THEN "gifted" ELSE "error")
    /\ hresult' = NoResult
    /\ UNCHANGED <<dinoClock, files, htx, hpc, huser, hrec, htries, hparts,
                   lastAttempt, hatches, ops>>
    /\ UNCHANGED <<duelVars, pureVars, rpsVars>>

\* lines 630-652: gift_dino, three statements in one query, outside a transaction;
\* done: how many of them ran before an error (3: no error)
GiftDino(o, done) ==
    /\ opc[o] = "gift"
    /\ done > 0 => htx.owner = None
    /\ dinoUser' = IF done >= 1 THEN EnsureDinoUser(dinoUser, oarg[o].to) ELSE dinoUser
    /\ ledger' = IF done >= 2
                 THEN Append(ledger, [dino_id |-> oarg[o].dino, user_id |-> oarg[o].to,
                                      gifter_id |-> oarg[o].user, type |-> "GIFT"])
                 ELSE ledger
    /\ dinos' = IF done >= 3
                THEN [dinos EXCEPT ![oarg[o].dino].owner = oarg[o].to]
                ELSE dinos
    /\ OpReturn(o, oarg[o].user, IF done >= 3 THEN "gifted" ELSE "error")
    /\ hresult' = NoResult
    /\ UNCHANGED <<dinoClock, files, htx, hpc, huser, hrec, htries, hparts,
                   lastAttempt, hatches, ops>>
    /\ UNCHANGED <<duelVars, pureVars, rpsVars>>

\* Time passes, while no command is running: a command is short against the
\* steps of the clock.
DinoTick(d) ==
    /\ \A t \in HatchTasks : hpc[t] = "idle"
    /\ \A o \in OpTasks : opc[o] = "idle"
    /\ dinoClock + d <= DinoClockStart + DinoHorizon
    /\ dinoClock' = dinoClock + d
    /\ hresult' = NoResult
    /\ oresult' = NoResult
    /\ UNCHANGED <<dinoUser, dinos, ledger, files, htx, hpc, huser, hrec, htries,
                   hparts, lastAttempt, hatches, opc, oarg, ops>>
    /\ UNCHANGED <<duelVars, pureVars, rpsVars>>

\* the steps of the hatch tasks H and the rename/gift tasks O, which start at
\* most `limit` rename and gift commands
DinoSteps(H, O, limit) ==
    \/ \E t \in H, u \in Users, ok \in BOOLEAN : HatchStart(t, u, ok)
    \/ \E t \in H, r \in HatchRolls, ok \in BOOLEAN : HatchRoll(t, r, ok)
    \/ \E t \in H, b \in Bodies, m \in Mouths, e \in Eyes, ok \in BOOLEAN :
          HatchGenerate(t, b, m, e, ok)
    \/ \E t \in H, ok \in BOOLEAN : HatchImage(t, ok)
    \/ \E t \in H, ok \in BOOLEAN : HatchInsert(t, ok)
    \/ \E t \in H, ok \in BOOLEAN : HatchEmbed(t, ok)
    \/ \E t \in H, ok \in BOOLEAN : HatchCommit(t, ok)
    \/ \E o \in O, cmd \in {"rename", "gift"}, u \in Users, n \in DinoNames,
          r \in Replacements, to \in Users : OpStart(o, cmd, u, n, r, to, limit)
    \/ \E o \in O, ok \in BOOLEAN : RenameUpdate(o, ok)
    \/ \E o \in O, done \in 0 .. 3 : GiftDino(o, done)

DinoNext ==
    \/ DinoSteps(HatchTasks, DinoOpTasks, MaxOps)
    \/ \E d \in DinoTickSteps : DinoTick(d)

\* one hatch task and two rename/gift tasks
OpsNext == DinoSteps(OpsHatchTasks, OpTasks, OpsMaxOps)

(***************************************************************************)
(* The pure functions, called on their own.                                *)
(***************************************************************************)
\* (len as f32).sqrt().ceil() as u32
CeilSqrt(n) == CHOOSE c \in 0 .. n : c * c >= n /\ (c = 0 \/ (c - 1) * (c - 1) < n)

\* a row count that rounds down
CeilDiv_RoundsDown(n, c) == n \div c

\* (len as f32 / columns as f32).ceil() as u32
CeilDiv(n, c) == (n + c - 1) \div c

\* generate_dino_collection_image, for a collection of len dinos: the size of the
\* grid and of the image, and at[i + 1], the pixel where dino i is overlaid
generate_dino_collection_image(len) ==
    LET columns == CeilSqrt(len)
        rows == CeilDiv(len, columns)
    IN  [columns |-> columns,
         rows |-> rows,
         width |-> columns * DINO_IMAGE_SIZE + (columns - 1) * COLUMN_MARGIN,
         height |-> rows * DINO_IMAGE_SIZE + (rows - 1) * ROW_MARGIN,
         at |-> [k \in 1 .. len |->
                   << ((k - 1) % columns) * (COLUMN_MARGIN + DINO_IMAGE_SIZE),
                      ((k - 1) \div columns) * (ROW_MARGIN + DINO_IMAGE_SIZE) >>]]

NoLayout == [columns |-> 0, rows |-> 0, width |-> 0, height |-> 0, at |-> <<>>]

\* no call
NoCall == [kind |-> None, last |-> 0, now |-> 0, len |-> 0, done |-> FALSE,
           blocked |-> FALSE, layout |-> NoLayout]

\* the calls: the cooldown check of hatch and of /duel with a last event and a
\* time of the call, and the layout of a collection that is not empty
Calls ==
    {[NoCall EXCEPT !.kind = k, !.last = l, !.now = n] :
        k \in {"hatch", "duel"}, l \in 0 .. MaxLastEvent, n \in 0 .. MaxNow}
    \cup {[NoCall EXCEPT !.kind = "collection", !.len = n] : n \in 1 .. COLLECTION_LIMIT}

PureInit == pure = NoCall

\* line 94 of hatch
HatchCooldownCheck ==
    /\ pure.kind = "hatch" /\ ~pure.done
    /\ pure' = [pure EXCEPT !.done = TRUE, !.blocked = HatchTooEarly(pure.last, pure.now)]
    /\ UNCHANGED <<duelVars, dinoVars, rpsVars>>

\* lines 359-360 of ensure_outside_cooldown
DuelCooldownCheck ==
    /\ pure.kind = "duel" /\ ~pure.done
    /\ pure' = [pure EXCEPT !.done = TRUE, !.blocked = CooldownActive(pure.last, pure.now)]
    /\ UNCHANGED <<duelVars, dinoVars, rpsVars>>

\* line 172 of collection
CollectionLayout ==
    /\ pure.kind = "collection" /\ ~pure.done
    /\ pure' = [pure EXCEPT !.done = TRUE,
                            !.layout = generate_dino_collection_image(pure.len)]
    /\ UNCHANGED <<duelVars, dinoVars, rpsVars>>

PureNext == HatchCooldownCheck \/ DuelCooldownCheck \/ CollectionLayout

(***************************************************************************)
(* /rps: commands/rockpaperscissors.rs.                                    *)
(***************************************************************************)
\* the timeout of every collector of /rps, in seconds (lines 66 and 142)
RPS_TIMEOUT == 600

RpsTickSteps == {RPS_TIMEOUT \div 2}

\* the clock of /rps stops here
RpsHorizon == 1500

Participants == {"challenger", "accepter"}

\* custom ids of create_weapons_buttons
WeaponButtons == {"rps-rock", "rps-paper", "rps-scissors"}

\* Weapon::from_str
from_str(str) ==
    CASE str = "rps-rock" -> "Rock"
      [] str = "rps-paper" -> "Paper"
      [] str = "rps-scissors" -> "Scissors"
      [] OTHER -> "Invalid weapon choice"

\* Weapon::to_str
to_str(weapon) ==
    CASE weapon = "Rock" -> "rock"
      [] weapon = "Paper" -> "paper"
      [] weapon = "Scissors" -> "scissors"

\* Weapon::compare
compare(self, other) ==
    IF <<self, other>> \in {<<"Rock", "Paper">>, <<"Paper", "Scissors">>,
                            <<"Scissors", "Rock">>}
    THEN "Loss"
    ELSE IF <<self, other>> \in {<<"Paper", "Rock">>, <<"Scissors", "Paper">>,
                                 <<"Rock", "Scissors">>}
    THEN "Win"
    ELSE "Draw"

\* lines 107-116: end_msg
end_msg(challenger_choice, accepter_choice) ==
    [challenger |-> to_str(challenger_choice),
     accepter |-> to_str(accepter_choice),
     text |-> CASE compare(challenger_choice, accepter_choice) = "Win" -> "challenger wins"
                [] compare(challenger_choice, accepter_choice) = "Loss" -> "accepter wins"
                [] OTHER -> "draw"]

NoEndMsg == [challenger |-> None, accepter |-> None, text |-> None]

NobodyMsg == [challenger |-> None, accepter |-> None, text |-> "nobody"]

RpsInit ==
    /\ rphase = "idle"
    /\ rchal = None
    /\ racc = None
    /\ rdeadline = 0
    /\ rwait = [p \in Participants |-> "none"]
    /\ rclicked = [p \in Participants |-> None]
    /\ rorder = <<>>
    /\ rresult = NoEndMsg
    /\ rpsClock = 0

\* rps returns Err: the futures still pending are dropped with their collectors
RpsErr ==
    /\ rphase' = "failed"
    /\ rwait' = [p \in Participants |-> IF rwait[p] = "chosen" THEN "chosen" ELSE "dropped"]

\* lines 58-60: the invitation is sent
RpsStart(u, ok) ==
    /\ rphase = "idle"
    /\ rchal = None
    /\ rchal' = u
    /\ rphase' = IF ok THEN "listen" ELSE "failed"
    /\ UNCHANGED <<racc, rdeadline, rwait, rclicked, rorder, rresult, rpsClock>>
    /\ UNCHANGED <<duelVars, dinoVars, pureVars>>

\* lines 62-67: the head of the while loop fetches the message and waits for a
\* click on it, for at most RPS_TIMEOUT
RpsListen(ok) ==
    /\ rphase = "listen"
    /\ rphase' = IF ok THEN "invite" ELSE "failed"
    /\ rdeadline' = IF ok THEN rpsClock + RPS_TIMEOUT ELSE rdeadline
    /\ UNCHANGED <<rchal, racc, rwait, rclicked, rorder, rresult, rpsClock>>
    /\ UNCHANGED <<duelVars, dinoVars, pureVars>>

\* lines 73-76: the challenger pressed Accept; the loop goes on if the reply went out
RpsOwnClick(ok) ==
    /\ rphase = "invite"
    /\ rpsClock < rdeadline
    /\ rphase' = IF ok THEN "listen" ELSE "failed"
    /\ UNCHANGED <<rchal, racc, rdeadline, rwait, rclicked, rorder, rresult, rpsClock>>
    /\ UNCHANGED <<duelVars, dinoVars, pureVars>>

\* lines 78-95: someone else pressed Accept; both get the weapon buttons
RpsAccept(v, ok) ==
    /\ rphase = "invite"
    /\ rpsClock < rdeadline
    /\ v # rchal
    /\ racc' = v
    /\ rphase' = IF ok THEN "fetch" ELSE "failed"
    /\ UNCHANGED <<rchal, rdeadline, rwait, rclicked, rorder, rresult, rpsClock>>
    /\ UNCHANGED <<duelVars, dinoVars, pureVars>>

\* lines 97-105: the two messages are fetched; then try_join! polls both
\* get_user_weapon_choice futures, each of which builds its collector
RpsFetch(ok) ==
    /\ rphase = "fetch"
    /\ IF ok
       THEN /\ rphase' = "choose"
            /\ rwait' = [p \in Participants |-> "waiting"]
            /\ rdeadline' = rpsClock + RPS_TIMEOUT
       ELSE /\ rphase' = "failed"
            /\ UNCHANGED <<rwait, rdeadline>>
    /\ UNCHANGED <<rchal, racc, rclicked, rorder, rresult, rpsClock>>
    /\ UNCHANGED <<duelVars, dinoVars, pureVars>>

\* lines 140-153: the collector of p yields p's click on one of the weapon buttons
WeaponClick(p, custom_id) ==
    /\ rphase = "choose"
    /\ rwait[p] = "waiting"
    /\ rpsClock < rdeadline
    /\ rwait' = [rwait EXCEPT ![p] = "clicked"]
    /\ rclicked' = [rclicked EXCEPT ![p] = custom_id]
    /\ rorder' = Append(rorder, p)
    /\ UNCHANGED <<rphase, rchal, racc, rdeadline, rresult, rpsClock>>
    /\ UNCHANGED <<duelVars, dinoVars, pureVars>>

\* lines 155-156: "Great choice!" is sent and the weapon parsed; an Err ends rps
WeaponUpdate(p, ok) ==
    /\ rphase = "choose"
    /\ rwait[p] = "clicked"
    /\ IF ok /\ from_str(rclicked[p]) # "Invalid weapon choice"
       THEN /\ rwait' = [rwait EXCEPT ![p] = "chosen"]
            /\ UNCHANGED rphase
       ELSE RpsErr
    /\ UNCHANGED <<rchal, racc, rdeadline, rclicked, rorder, rresult, rpsClock>>
    /\ UNCHANGED <<duelVars, dinoVars, pureVars>>

\* lines 150-153: the collector of p ended without a click: "Button press error"
WeaponTimeout(p) ==
    /\ rphase = "choose"
    /\ rwait[p] = "waiting"
    /\ rpsClock >= rdeadline
    /\ RpsErr
    /\ UNCHANGED <<rchal, racc, rdeadline, rclicked, rorder, rresult, rpsClock>>
    /\ UNCHANGED <<duelVars, dinoVars, pureVars>>

\* an rps that announces as soon as one choice is in, taking the other's as rock
RpsAnnounce_AfterFirstChoice(ok) ==
    /\ rphase = "choose"
    /\ \E p \in Participants : rwait[p] = "chosen"
    /\ rphase' = IF ok THEN "done" ELSE "failed"
    /\ rresult' = IF ok
                  THEN end_msg(IF rwait["challenger"] = "chosen"
                               THEN from_str(rclicked["challenger"]) ELSE "Rock",
                               IF rwait["accepter"] = "chosen"
                               THEN from_str(rclicked["accepter"]) ELSE "Rock")
                  ELSE rresult
    /\ UNCHANGED <<rchal, racc, rdeadline, rwait, rclicked, rorder, rpsClock>>
    /\ UNCHANGED <<duelVars, dinoVars, pureVars>>

\* lines 102-122: try_join! returned both choices; the invitation is edited to end_msg
RpsAnnounce(ok) ==
    /\ rphase = "choose"
    /\ \A p \in Participants : rwait[p] = "chosen"
    /\ rphase' = IF ok THEN "done" ELSE "failed"
    /\ rresult' = IF ok
                  THEN end_msg(from_str(rclicked["challenger"]),
                               from_str(rclicked["accepter"]))
                  ELSE rresult
    /\ UNCHANGED <<rchal, racc, rdeadline, rwait, rclicked, rorder, rpsClock>>
    /\ UNCHANGED <<duelVars, dinoVars, pureVars>>

\* lines 125-132: the wait for an opponent timed out
RpsNobody(ok) ==
    /\ rphase = "invite"
    /\ rpsClock >= rdeadline
    /\ rphase' = IF ok THEN "done" ELSE "failed"
    /\ rresult' = IF ok THEN NobodyMsg ELSE rresult
    /\ UNCHANGED <<rchal, racc, rdeadline, rwait, rclicked, rorder, rpsClock>>
    /\ UNCHANGED <<duelVars, dinoVars, pureVars>>

\* time passes while rps waits on its collectors, up to their timeout
RpsTick(d) ==
    /\ rphase \in {"invite", "choose"}
    /\ rpsClock + d <= Min(rdeadline, RpsHorizon)
    /\ rpsClock' = rpsClock + d
    /\ UNCHANGED <<rphase, rchal, racc, rdeadline, rwait, rclicked, rorder, rresult>>
    /\ UNCHANGED <<duelVars, dinoVars, pureVars>>

RpsNext ==
    \/ \E u \in Users, ok \in BOOLEAN : RpsStart(u, ok)
    \/ \E ok \in BOOLEAN : RpsListen(ok)
    \/ \E ok \in BOOLEAN : RpsOwnClick(ok)
    \/ \E v \in Users, ok \in BOOLEAN : RpsAccept(v, ok)
    \/ \E ok \in BOOLEAN : RpsFetch(ok)
    \/ \E p \in Participants, custom_id \in WeaponButtons : WeaponClick(p, custom_id)
    \/ \E p \in Participants, ok \in BOOLEAN : WeaponUpdate(p, ok)
    \/ \E p \in Participants : WeaponTimeout(p)
    \/ \E ok \in BOOLEAN : RpsAnnounce(ok)
    \/ \E ok \in BOOLEAN : RpsNobody(ok)
    \/ \E d \in RpsTickSteps : RpsTick(d)

Init == DuelInit /\ DinoInit /\ PureInit /\ RpsInit

Next == DuelNext

Spec == Init /\ [][Next]_vars

\* one challenger, on a finer clock
SpecWait == Init /\ [][WaitNext]_vars

\* the /dino commands
InitDino == DuelInit /\ DinoInitHistory /\ PureInit /\ RpsInit

SpecDino == InitDino /\ [][DinoNext]_vars

\* the /dino commands with concurrent rename and gift commands
SpecOps == Init /\ [][OpsNext]_vars

\* the pure functions, each called once with any of its arguments
InitPure == DuelInit /\ DinoInit /\ pure \in Calls /\ RpsInit

SpecPure == InitPure /\ [][PureNext]_vars

\* one /rps command
SpecRps == Init /\ [][RpsNext]_vars

(***************************************************************************)
(* Vocabulary of the claims about /duel.                                   *)
(***************************************************************************)
\* the challenge of s is posted and waits for an accepter
Unresolved(s) == dpc[s] \in {"store", "message", "wait", "accepter"}
\* the challenge of s has its accepter and is being resolved
Accepted(s) == dpc[s] \in {"resolve", "announce", "commit"}
Active(s) == Unresolved(s) \/ Accepted(s)
\* no /duel task is between posting its invitation and clearing the flag
NoSession == \A s \in Challengers : dpc[s] \in {"idle", "cooldown", "send"}
\* positions of event e in the history of session s
Positions(s, e) == {i \in DOMAIN events[s] : events[s][i] = e}

(***************************************************************************)
(* C1: for every interleaving of /duel commands, at most one duel          *)
(* challenge is active (its invitation posted and the session not yet      *)
(* closed) at any time.                                                    *)
(***************************************************************************)
C1_AtMostOneActive ==
    \A s, t \in Challengers : (Active(s) /\ Active(t)) => s = t

(***************************************************************************)
(* Vocabulary of the claims about /dino.                                   *)
(***************************************************************************)
\* the (body, mouth, eyes) tuple of a Dino row
Tuple(row) == <<row.body, row.mouth, row.eyes>>
\* a hatch of user u gets past the cooldown check in this step
PassesCooldown(t, u) == hpc[t] = "idle" /\ hpc'[t] = "roll" /\ huser'[t] = u

(***************************************************************************)
(* C2: after any sequence of hatch, rename and gift commands, concurrent   *)
(* hatches included, no two persisted Dino rows have the same (body,       *)
(* mouth, eyes) tuple.                                                     *)
(***************************************************************************)
C2_UniqueTuples ==
    \A i, j \in DOMAIN dinos : Tuple(dinos[i]) = Tuple(dinos[j]) => i = j

C6_AtMostTwentySamples ==
    \A t \in HatchTasks : hpc[t] = "generate" => htries[t] < MAX_GENERATION_ATTEMPTS

(***************************************************************************)
(* C7: after a hatch attempt of a user, hatched or failed on the roll, no  *)
(* further hatch of that user gets past the cooldown check until           *)
(* HATCH_COOLDOWN seconds have passed since that attempt.                  *)
(***************************************************************************)
C7_CooldownAfterAttempt ==
    [][ \A t \in HatchTasks, u \in Users :
          PassesCooldown(t, u) => dinoClock >= lastAttempt[u] + HATCH_COOLDOWN ]_vars

(***************************************************************************)
(* C3, as amended: while fewer than LOSS_COOLDOWN minutes have passed      *)
(* since a user's recorded loss, the cooldown check never lets that user   *)
(* open a challenge or become an accepter, and a rejection that comes from *)
(* the cooldown check having read last_loss carries the loss-cooldown      *)
(* reason.                                                                 *)
(***************************************************************************)
C3_LoserBlocked ==
    [][ \A u \in Users :
          duelClock < lastLoss[u] + LOSS_COOLDOWN =>
            /\ (u \in Challengers /\ dpc[u] = "cooldown" /\ dpc'[u] # "cooldown") =>
                 /\ dpc'[u] = "idle"
                 /\ lastNotice'.to = u
                 /\ lastNotice'.text \in {"cooldown", "no_last_loss"}
            /\ \A s \in Challengers :
                 (dpc[s] = "accepter" /\ cand[s] = u /\ dpc'[s] # "accepter") =>
                    /\ dpc'[s] \in {"wait", "edit"}
                    /\ lastNotice'.to = u
                    /\ lastNotice'.text \in {"cooldown", "no_last_loss"} ]_vars

\* a user with a recorded loss was just refused with the loss-cooldown reason
C3_Witness ==
    \E u \in Users :
        /\ lastNotice = [to |-> u, text |-> "cooldown"]
        /\ stats[u].losses > 0
        /\ duelClock < lastLoss[u] + LOSS_COOLDOWN

\* C3 as stated: every reply to a /duel or an accept click of a user inside the
\* loss cooldown gives the loss-cooldown reason (a failed read of last_loss aside)
C3_AlwaysCooldownReason ==
    \A u \in Users :
        (lastNotice.to = u /\ duelClock < lastLoss[u] + LOSS_COOLDOWN)
            => lastNotice.text \in {"cooldown", "no_last_loss"}

(***************************************************************************)
(* C4: IN_PROGRESS is false whenever no duel session is open: before the   *)
(* first one and after every started one has finished, whichever way it    *)
(* ended.                                                                  *)
(***************************************************************************)
C4_FlagClearWithoutSession == NoSession => inProgress = FALSE

\* a resolved and committed duel has finished, and the flag is clear again
C4_Witness ==
    /\ NoSession
    /\ inProgress = FALSE
    /\ \E u \in Users : stats[u].present

(***************************************************************************)
(* C8: in a resolved duel the result is announced only after the accepter  *)
(* is known, the outcome is computed and its DuelStats update is           *)
(* committed; it is announced at most once.                                *)
(***************************************************************************)
C8_CommitBeforeAnnounce ==
    \A s \in Challengers :
        /\ Cardinality(Positions(s, "announced")) <= 1
        /\ \A i \in Positions(s, "announced") :
             /\ \E j \in Positions(s, "accepted") : j < i
             /\ \E j \in Positions(s, "updated") : j < i
             /\ \E j \in Positions(s, "committed") : j < i

(***************************************************************************)
(* C9: a duel that found no eligible accepter is no longer waiting once    *)
(* DEAD_DUEL_COOLDOWN minutes have passed since its wait started, whatever *)
(* ineligible clicks arrived.                                              *)
(***************************************************************************)
C9_ExpiredByTimeout ==
    \A s \in Challengers :
        Unresolved(s) /\ dpc[s] \in {"wait", "accepter"}
            => duelClock <= waitStart[s] + DEAD_DUEL_COOLDOWN

(***************************************************************************)
(* C10: the DuelStats update of a duel is decided by the two scores: the   *)
(* higher score's user gets wins + 1, win_streak + 1, loss_streak = 0, the *)
(* other losses + 1, loss_streak + 1, win_streak = 0; equal scores give    *)
(* both draws + 1 and both streaks 0; with or without an existing row.     *)
(***************************************************************************)
WonOver(old, new) ==
    /\ new.present
    /\ new.wins = old.wins + 1
    /\ new.win_streak = old.win_streak + 1
    /\ new.loss_streak = 0
    /\ new.losses = old.losses /\ new.draws = old.draws

LostTo(old, new) ==
    /\ new.present
    /\ new.losses = old.losses + 1
    /\ new.loss_streak = old.loss_streak + 1
    /\ new.win_streak = 0
    /\ new.wins = old.wins /\ new.draws = old.draws

Drew(old, new) ==
    /\ new.present
    /\ new.draws = old.draws + 1
    /\ new.win_streak = 0 /\ new.loss_streak = 0
    /\ new.wins = old.wins /\ new.losses = old.losses

C10_UpdateByScores ==
    \A s \in Challengers :
        dpc[s] \in {"announce", "commit"} =>
            LET a == cand[s]
                cs == scores[s][1]
                as == scores[s][2]
            IN  /\ dtx.owner = s
                /\ cs > as => WonOver(stats[s], dtx.stats[s]) /\ LostTo(stats[a], dtx.stats[a])
                /\ cs < as => LostTo(stats[s], dtx.stats[s]) /\ WonOver(stats[a], dtx.stats[a])
                /\ cs = as => Drew(stats[s], dtx.stats[s]) /\ Drew(stats[a], dtx.stats[a])
                /\ \A u \in Users \ {s, a} : dtx.stats[u] = stats[u]

\* a challenger who has a row with a loss streak wins against a user who has a row
C10_Witness ==
    \E s \in Challengers :
        /\ dpc[s] = "announce"
        /\ scores[s][1] > scores[s][2]
        /\ stats[s].present /\ stats[s].loss_streak > 0
        /\ stats[cand[s]].present

(***************************************************************************)
(* C11: a hatch commits all of its writes or none: the step in which a     *)
(* hatch leaves its insert, its embed or its commit either reports the     *)
(* hatch and adds one Dino row of the hatcher, one HATCH ledger entry for  *)
(* that row, and sets the hatcher's last_hatch with consecutive_fails 0,   *)
(* or it changes none of the three tables; every Dino row has exactly one  *)
(* HATCH entry.                                                            *)
(***************************************************************************)
\* the ledger entries of type kind for Dino id
Entries(led, kind, id) ==
    {k \in DOMAIN led : led[k].type = kind /\ led[k].dino_id = id}

C11_HatchAllOrNothing ==
    [][ /\ \A t \in HatchTasks :
             (hpc[t] \in {"insert", "embed", "commit"} /\ hpc'[t] # hpc[t]) =>
                IF hresult' = [user |-> huser[t], text |-> "hatched"]
                THEN /\ Len(dinos') = Len(dinos) + 1
                     /\ SubSeq(dinos', 1, Len(dinos)) = dinos
                     /\ dinos'[Len(dinos')].owner = huser[t]
                     /\ ledger' = Append(ledger, [dino_id |-> Len(dinos'),
                                                  user_id |-> huser[t],
                                                  gifter_id |-> None,
                                                  type |-> "HATCH"])
                     /\ dinoUser' = [dinoUser EXCEPT
                                        ![huser[t]].last_hatch = dinoClock,
                                        ![huser[t]].consecutive_fails = 0]
                ELSE dinos' = dinos /\ ledger' = ledger /\ dinoUser' = dinoUser
        /\ \A i \in DOMAIN dinos' : Cardinality(Entries(ledger', "HATCH", i)) = 1
        /\ \A k \in DOMAIN ledger' : ledger'[k].dino_id \in DOMAIN dinos' ]_vars

\* one hatch has committed and the other attempt has left no row
C11_Witness ==
    /\ hresult.text = "hatched"
    /\ Len(dinos) = 1
    /\ hatches = 2
    /\ \A t \in HatchTasks : hpc[t] = "idle"


(***************************************************************************)
(* C12: the GIFT ledger insert and the owner update of gift_dino are       *)
(* all-or-nothing: in every reachable state the owner of each Dino is the  *)
(* user named by the latest ledger entry of that Dino, so no GIFT entry    *)
(* exists without its change of owner and no change of owner without its   *)
(* entry.                                                                  *)
(***************************************************************************)
\* the ledger entries for Dino id, of any type
EntriesOf(led, id) == {k \in DOMAIN led : led[k].dino_id = id}

\* the latest ledger entry for Dino id
LatestEntry(led, id) ==
    led[CHOOSE k \in EntriesOf(led, id) : \A j \in EntriesOf(led, id) : j <= k]

C12_GiftAllOrNothing ==
    \A i \in DOMAIN dinos :
        EntriesOf(ledger, i) # {} => dinos[i].owner = LatestEntry(ledger, i).user_id

(***************************************************************************)
(* C13: a gift changes, of the gifted Dino, only the owner, which becomes  *)
(* the recipient: no row's place in the table (its id), filename or (body, *)
(* mouth, eyes) tuple changes, and the gift leaves every name as it is; a  *)
(* completed gift appends exactly one GIFT entry naming the recipient and  *)
(* the gifter, and no step changes or removes an existing ledger entry.    *)
(***************************************************************************)
\* the GIFT entry of the gift that op task o performs
GiftEntry(o) ==
    [dino_id |-> oarg[o].dino, user_id |-> oarg[o].to, gifter_id |-> oarg[o].user,
     type |-> "GIFT"]

C13_GiftFrame ==
    [][ /\ \A o \in OpTasks :
             (opc[o] = "gift" /\ opc'[o] # "gift") =>
                /\ DOMAIN dinos' = DOMAIN dinos
                /\ \A i \in DOMAIN dinos :
                      \/ dinos'[i] = dinos[i]
                      \/ /\ i = oarg[o].dino
                         /\ dinos'[i] = [dinos[i] EXCEPT !.owner = oarg[o].to]
                /\ ledger' \in {ledger, Append(ledger, GiftEntry(o))}
                /\ oresult'.text = "gifted" =>
                      /\ dinos'[oarg[o].dino].owner = oarg[o].to
                      /\ ledger' = Append(ledger, GiftEntry(o))
        /\ Len(ledger') >= Len(ledger)
        /\ SubSeq(ledger', 1, Len(ledger)) = ledger
        /\ \A i \in DOMAIN dinos :
             /\ i \in DOMAIN dinos'
             /\ dinos'[i].filename = dinos[i].filename
             /\ Tuple(dinos'[i]) = Tuple(dinos[i]) ]_vars

\* a gift to another user has completed
C13_Witness ==
    /\ oresult.text = "gifted"
    /\ \E i \in DOMAIN dinos :
          /\ Entries(ledger, "GIFT", i) # {}
          /\ dinos[i].owner = LatestEntry(ledger, i).user_id
          /\ dinos[i].owner # LatestEntry(ledger, i).gifter_id

(***************************************************************************)
(* C14, as amended: a rename whose UPDATE runs fails with the name-taken   *)
(* error and changes no Dino row when another Dino row holds the target    *)
(* name; otherwise it succeeds and changes the name of exactly the         *)
(* targeted row, which includes renaming a Dino to the name it already     *)
(* has.  In every state reached by hatch, rename and gift commands no two  *)
(* Dino rows share a name.                                                 *)
(***************************************************************************)
\* op task o finishes the UPDATE of a rename in this step, without a storage error
RenameRuns(o) == opc[o] = "rename" /\ opc'[o] # "rename" /\ oresult'.text # "error"

\* the table after the targeted row of op task o has taken the new name
Renamed(o) == [dinos EXCEPT ![oarg[o].dino].name = oarg[o].name]

C14_RenameConflict ==
    [][ /\ \A o \in OpTasks :
             RenameRuns(o) =>
                IF \E i \in DOMAIN dinos :
                      i # oarg[o].dino /\ dinos[i].name = oarg[o].name
                THEN oresult'.text = "name_taken" /\ dinos' = dinos
                ELSE oresult'.text = "renamed" /\ dinos' = Renamed(o)
        /\ \A i, j \in DOMAIN dinos' : dinos'[i].name = dinos'[j].name => i = j ]_vars

\* a rename has been refused because another Dino holds the name
C14_Witness ==
    /\ oresult.text = "name_taken"
    /\ Len(dinos) = 2
    /\ dinos[1].name # dinos[2].name

(***************************************************************************)
(* C14, as stated: a rename fails with the name-taken error and changes no *)
(* Dino row whenever the target name exists in the Dino table, and         *)
(* succeeds, changing the targeted row, otherwise.                         *)
(***************************************************************************)
C14_RenameFailsOnExistingName ==
    [][ \A o \in OpTasks :
          RenameRuns(o) =>
             IF \E i \in DOMAIN dinos : dinos[i].name = oarg[o].name
             THEN oresult'.text = "name_taken" /\ dinos' = dinos
             ELSE oresult'.text = "renamed" /\ dinos' = Renamed(o) ]_vars

(***************************************************************************)
(* C15: a hatch whose generation runs out of attempts persists nothing: no *)
(* step of a hatch up to and including the exhausted return of             *)
(* generate_dino adds a Dino row or a ledger row, writes an image, or      *)
(* changes any user's last_hatch or consecutive_fails.                     *)
(***************************************************************************)
\* hatch task t gets past the cooldown check, passes the roll, takes one turn of
\* the loop of generate_dino, or returns from it exhausted, in this step
BeforeImage(t) ==
    \/ hpc[t] = "idle" /\ hpc'[t] = "roll"
    \/ hpc[t] = "roll" /\ hpc'[t] = "generate"
    \/ hpc[t] = "generate" /\ hpc'[t] = "generate" /\ htries'[t] # htries[t]
    \/ /\ hpc[t] = "generate" /\ hpc'[t] = "idle"
       /\ hresult' = [user |-> huser[t], text |-> "exhausted"]

C15_ExhaustedPersistsNothing ==
    [][ \A t \in HatchTasks :
          BeforeImage(t) =>
             /\ dinos' = dinos
             /\ ledger' = ledger
             /\ files' = files
             /\ \A u \in Users :
                   /\ dinoUser'[u].last_hatch = dinoUser[u].last_hatch
                   /\ dinoUser'[u].consecutive_fails = dinoUser[u].consecutive_fails ]_vars

\* a hatch has just returned exhausted
C15_Witness ==
    /\ hresult.text = "exhausted"
    /\ Len(dinos) >= 1
    /\ dinoUser[hresult.user].present

(***************************************************************************)
(* C16: the cooldown check blocks a command if and only if it is issued    *)
(* strictly before the last event plus the cooldown: HATCH_COOLDOWN        *)
(* seconds after last_hatch for hatch, LOSS_COOLDOWN minutes after         *)
(* last_loss for /duel; a command issued exactly then, or later, passes.   *)
(***************************************************************************)
C16_BlockedIffBeforeExpiry ==
    pure.done =>
        /\ pure.kind = "hatch" =>
              (pure.blocked <=> pure.now < pure.last + HATCH_COOLDOWN)
        /\ pure.kind = "duel" =>
              (pure.blocked <=> pure.now < pure.last + LOSS_COOLDOWN)

\* a hatch issued exactly HATCH_COOLDOWN after a last_hatch has passed the check
C16_Witness ==
    /\ pure.done
    /\ pure.kind = "hatch"
    /\ pure.last > 0
    /\ pure.now = pure.last + HATCH_COOLDOWN
    /\ ~pure.blocked

(***************************************************************************)
(* C17, as amended: in every reachable state of every user's DuelStats     *)
(* row at most one of win_streak and loss_streak is nonzero, and both are  *)
(* zero only in the row of a user who has drawn.                           *)
(***************************************************************************)
C17_AtMostOneStreak ==
    \A u \in Users :
        stats[u].present =>
            /\ stats[u].win_streak = 0 \/ stats[u].loss_streak = 0
            /\ (stats[u].win_streak = 0 /\ stats[u].loss_streak = 0)
                  => stats[u].draws > 0

\* a user who had won or lost before has drawn: both streaks are zero
C17_Witness ==
    \E u \in Users :
        /\ stats[u].present
        /\ stats[u].win_streak = 0 /\ stats[u].loss_streak = 0
        /\ stats[u].draws > 0
        /\ stats[u].wins + stats[u].losses > 0

(***************************************************************************)
(* C17, as stated: in every reachable state of every user's DuelStats row  *)
(* exactly one of win_streak and loss_streak is nonzero.                   *)
(***************************************************************************)
C17_ExactlyOneStreak ==
    \A u \in Users :
        stats[u].present => (stats[u].win_streak # 0) # (stats[u].loss_streak # 0)

(***************************************************************************)
(* C18: a failed platform action during the resolution of a duel does not  *)
(* roll back the duel's recorded outcome: when the update of the message   *)
(* with the result fails and run_duel returns, the DuelStats update of     *)
(* that duel is persisted.                                                 *)
(***************************************************************************)
C18_OutcomeSurvivesPlatformFailure ==
    [][ \A s \in Challengers :
          (dpc[s] = "announce" /\ dpc'[s] = "close") => stats' = dtx.stats ]_vars

(***************************************************************************)
(* C19: for a collection of N dinos, N from 1 to the 25 that               *)
(* fetch_collection returns at most, the grid has C = ceil(sqrt(N))        *)
(* columns and R = ceil(N / C) rows, dino i (counted from 0) is drawn in   *)
(* column i mod C and row floor(i / C), every row is less than R and every *)
(* column less than C, no two dinos share a cell, and every cell lies      *)
(* inside the image.                                                       *)
(***************************************************************************)
\* the column and the row of the cell whose corner is the pixel xy
CellOf(xy) ==
    << xy[1] \div (COLUMN_MARGIN + DINO_IMAGE_SIZE),
       xy[2] \div (ROW_MARGIN + DINO_IMAGE_SIZE) >>

C19_GridLayout ==
    (pure.done /\ pure.kind = "collection") =>
        LET N == pure.len
            g == pure.layout
            C == g.columns
            R == g.rows
        IN  /\ C * C >= N /\ (C - 1) * (C - 1) < N
            /\ R * C >= N /\ (R - 1) * C < N
            /\ DOMAIN g.at = 1 .. N
            /\ \A k \in 1 .. N :
                  /\ CellOf(g.at[k]) = << (k - 1) % C, (k - 1) \div C >>
                  /\ CellOf(g.at[k])[1] < C
                  /\ CellOf(g.at[k])[2] < R
                  /\ g.at[k][1] = CellOf(g.at[k])[1] * (COLUMN_MARGIN + DINO_IMAGE_SIZE)
                  /\ g.at[k][2] = CellOf(g.at[k])[2] * (ROW_MARGIN + DINO_IMAGE_SIZE)
                  /\ g.at[k][1] + DINO_IMAGE_SIZE <= g.width
                  /\ g.at[k][2] + DINO_IMAGE_SIZE <= g.height
            /\ \A j, k \in 1 .. N : CellOf(g.at[j]) = CellOf(g.at[k]) => j = k

\* a collection of ten dinos has been laid out, on four columns and three rows
C19_Witness ==
    /\ pure.done
    /\ pure.kind = "collection"
    /\ pure.len = 10
    /\ pure.layout.columns = 4
    /\ pure.layout.rows = 3
    /\ pure.layout.at[10] = <<114, 228>>

(***************************************************************************)
(* C20: during the wait of a duel a click of the challenger gets the       *)
(* own-duel notice, a click while IN_PROGRESS is false gets the            *)
(* beaten-to-it notice, a click of a user under loss cooldown gets the     *)
(* cooldown notice, and none of them becomes the accepter: the session     *)
(* goes back to waiting (or, if the notice itself cannot be delivered,     *)
(* find_opponent gives up).  A click of another user while IN_PROGRESS is  *)
(* true whose cooldown check passes makes that user the accepter, and the  *)
(* accepter of a duel is set at most once.                                 *)
(***************************************************************************)
\* session s is waiting again, or has given up, with no accepter candidate
StillOpen(s) == dpc'[s] \in {"wait", "edit"} /\ cand'[s] = None

OpMutates(o) ==
    /\ opc[o] \in {"rename", "gift"}
    /\ opc'[o] = "idle"
    /\ (dinos' # dinos \/ ledger' # ledger)

C21_OnlyOwnerMutates ==
    [][\A o \in OpTasks :
          OpMutates(o) => dinos[oarg[o].dino].owner = oarg[o].user]_vars

\* ---------------------------------------------------------------------------
\* C22: for every user and every interleaving of that user's hatch commands,
\* consecutive_fails stays within 0 .. MAX_FAILED_HATCHES: a failed attempt
\* adds one and never goes past the cap. hatch decides on the record it read
\* (line 103) and update_failed_hatches adds one to the stored value in a
\* later statement (lines 303-312).
C22_FailsWithinCap ==
    \A u \in Users : dinoUser[u].consecutive_fails \in 0 .. MAX_FAILED_HATCHES

\* ---------------------------------------------------------------------------
\* C23: a duel that ends without an opponent (find_opponent returned None, or
\* the invitation message could not be fetched) writes no DuelStats row, and
\* that outcome is final: from then on the session has no accepter, holds no
\* transaction, handles no click, and its only steps are the edit of the
\* invitation and the return of duel; none of them changes DuelStats.
Expired(s) ==
    \/ dpc[s] = "edit"
    \/ dpc[s] = "close" /\ Positions(s, "accepted") = {}

C23_ExpiredIsFinal ==
    [][\A s \in Challengers :
          Expired(s) =>
             /\ cand[s] = None /\ cand'[s] = None
             /\ dtx.owner # s /\ dtx'.owner # s
             /\ Positions(s, "updated") = {}
             /\ dpc'[s] \in {dpc[s], "close", "idle"}
             /\ dpc[s] = "close" => dpc'[s] # "edit"
             /\ dpc'[s] # "idle" => events'[s] \in {events[s], Append(events[s], "expired_edit")}
             /\ dpc'[s] # dpc[s] => stats' = stats /\ dtx' = dtx]_vars

\* the invitation was edited to the no-opponent text while the other user has
\* an open session, and duel is about to return
C23_Witness ==
    \E s \in Challengers :
       /\ dpc[s] = "close"
       /\ Positions(s, "expired_edit") # {}
       /\ \E r \in Challengers \ {s} : Active(r)

\* ---------------------------------------------------------------------------
\* C24: each user's win_streak_max is the largest value win_streak has held
\* and loss_streak_max the largest value loss_streak has held. Both start at 0
\* with the absent row, and every step keeps each maximum equal to the larger
\* of its old value and the new streak, which is the running maximum; so
\* win_streak <= win_streak_max <= wins and
\* loss_streak <= loss_streak_max <= losses in every state.
StreakBounds(row) ==
    /\ 0 <= row.win_streak /\ row.win_streak <= row.win_streak_max
    /\ row.win_streak_max <= row.wins
    /\ 0 <= row.loss_streak /\ row.loss_streak <= row.loss_streak_max
    /\ row.loss_streak_max <= row.losses

C24_RunningMaximum ==
    [][\A u \in Users :
          /\ stats'[u].win_streak_max = Max(stats[u].win_streak_max, stats'[u].win_streak)
          /\ stats'[u].loss_streak_max = Max(stats[u].loss_streak_max, stats'[u].loss_streak)
          /\ StreakBounds(stats[u]) /\ StreakBounds(stats'[u])]_vars

\* a user who won and then lost to the same opponent: the best streak of each
\* stays at 1 after the current one has ended
C24_Witness ==
    \E u, v \in Users :
       /\ u # v
       /\ stats[u].win_streak_max = 1 /\ stats[u].win_streak = 0
       /\ stats[u].loss_streak = 1
       /\ stats[v].loss_streak_max = 1 /\ stats[v].loss_streak = 0
       /\ stats[v].win_streak = 1


\* ---------------------------------------------------------------------------
\* C25: an /rps match announces its result only after the weapon choices of
\* both the challenger and the accepter were collected, and the result is the
\* comparison of those two choices; the two waits run side by side, so either
\* choice may be the first; a choice is collected only before the 600-second
\* timeout of its collector, and a participant whose collector timed out ends
\* the command without any result.
Announced == rresult.text \in {"challenger wins", "accepter wins", "draw"}

Beats(a, b) ==
    <<a, b>> \in {<<"rock", "scissors">>, <<"scissors", "paper">>, <<"paper", "rock">>}

C25_ResultAfterBothChoices ==
    [][/\ Announced' =>
            /\ \A p \in Participants : rwait'[p] = "chosen" /\ rclicked'[p] \in WeaponButtons
            /\ {rorder'[i] : i \in DOMAIN rorder'} = Participants
            /\ \A p \in Participants : "rps-" \o rresult'[p] = rclicked'[p]
            /\ rresult'.text = "challenger wins"
                  <=> Beats(rresult'.challenger, rresult'.accepter)
            /\ rresult'.text = "accepter wins"
                  <=> Beats(rresult'.accepter, rresult'.challenger)
       /\ rorder' # rorder => rpsClock < rdeadline
       /\ (\E p \in Participants : rwait[p] = "waiting" /\ rwait'[p] = "dropped"
                                     /\ rpsClock >= rdeadline)
            => rphase' = "failed"
       /\ rphase = "failed" => rphase' = "failed" /\ ~Announced']_vars

\* the accepter chose first, just before the timeout; the challenger won
C25_Witness ==
    /\ Announced
    /\ rorder = <<"accepter", "challenger">>
    /\ rpsClock > 0
    /\ rresult.text = "challenger wins"

\* ---------------------------------------------------------------------------
\* C26: while any duel session is between its open and its close, IN_PROGRESS
\* is true, and therefore no click on an open invitation is answered with
\* "Someone beat you to the challenge already". A session counts as open here
\* from its own store(true) (line 51) until its own store(false) (line 55),
\* which is the narrowest reading: the flag is also still false between the
\* post of the invitation and that store(true).
FlagOwed(s) ==
    dpc[s] \in {"message", "wait", "accepter", "resolve", "announce", "commit",
                "edit", "close"}

C26_FlagSetWhileOpen ==
    /\ \A s \in Challengers : FlagOwed(s) => inProgress
    /\ lastNotice.text # "beaten"

\* ---------------------------------------------------------------------------
\* C27: no hatch, whether it persists a Dino or fails (also when its INSERT is
\* rejected for a taken name), overwrites the image file of a Dino that is
\* already persisted: every step leaves the file named by a committed row's
\* filename with the content it had.
C27_AssetsKept ==
    [][\A i \in DOMAIN dinos :
          \A f \in files : f.name = dinos[i].filename => f \in files']_vars

\* ---------------------------------------------------------------------------
\* C28: whenever the draw penalty was applied to both participants of a duel,
\* the draw of that duel is committed to DuelStats by the time run_duel has
\* returned; no execution applies the penalty and leaves the draw unrecorded.
C28_PenaltyImpliesDraw ==
    \A s \in Challengers :
       (dpc[s] = "close" /\ cand[s] # None /\ penalised[s] = {s, cand[s]})
          => Positions(s, "committed") # {}

\* ---------------------------------------------------------------------------
\* C29: /duelstats never runs the unreachable!() arm of current_streak: for
\* every row it can read, committed or being written by the open transaction,
\* the match takes one of its four other arms, and a row with a running streak
\* on one side takes the arm of that side.
C29_StreakArmReachable ==
    \A u \in Users :
       \A row \in {stats[u]} \cup (IF dtx.owner # None THEN {dtx.stats[u]} ELSE {}) :
          /\ current_streak(row) # "unreachable"
          /\ row.win_streak > 0 => current_streak(row) = "wins"
          /\ row.loss_streak > 0 => current_streak(row) = "losses"

\* one user lost and then won, the other won and then lost
C29_Witness ==
    \E u, v \in Users :
       /\ stats[u].losses = 1 /\ current_streak(stats[u]) = "wins"
       /\ stats[v].wins = 1 /\ current_streak(stats[v]) = "losses"

\* ---------------------------------------------------------------------------
\* C30: whenever a hatch takes the failed-roll branch, the consecutive_fails
\* it read is in 0 .. 2, so HATCH_FAILS_TEXT[consecutive_fails] is inside the
\* three-element array and the reply is sent rather than the task panicking;
\* this holds for every roll of the die and whatever the stored counter has
\* become through concurrent hatches. The second conjunct states it for every
\* value the read could return, also those past MAX_FAILED_HATCHES.
TookFailedRoll(t) ==
    /\ hpc[t] = "roll"
    /\ hpc'[t] = "idle"

C30_FailTextIndexInBounds ==
    [][/\ \A t \in HatchTasks :
            TookFailedRoll(t) =>
               /\ hrec[t].consecutive_fails \in 0 .. (Len(HATCH_FAILS_TEXT) - 1)
               /\ hresult'.user = huser[t]
               /\ hresult'.text = IF dinoUser' # dinoUser THEN "failed_roll" ELSE "error"
       /\ \A hatch_roll \in HatchRolls, read \in 0 .. (MAX_FAILED_HATCHES + MaxHatches) :
            RollFails(hatch_roll, read) => read + 1 \in DOMAIN HATCH_FAILS_TEXT
       /\ hresult'.text # "panic"]_vars

\* a hatch got its "3rd attempt" reply while a concurrent failed hatch had
\* already pushed the stored counter past the array's length
C30_Witness ==
    /\ hresult.text = "failed_roll"
    /\ dinoUser[hresult.user].consecutive_fails > Len(HATCH_FAILS_TEXT)
====
